---- MODULE Spec2Model ----
(***************************************************************************)
(* Model of app.py: the WhatsApp webhook relay and in-memory message log.  *)
(*                                                                         *)
(* JSON objects and Python dicts are TLA+ records, a key being present in  *)
(* the dict exactly when it is in the DOMAIN of the record.  Python None   *)
(* in a string position is the string None; a JSON null in a position      *)
(* where the code expects an object is NullObj.  ISO-8601 timestamps and   *)
(* the string-encoded epoch of a status event are sequences of one-        *)
(* character strings, so that int() and isoformat() are computed.          *)
(***************************************************************************)
EXTENDS Integers, Sequences, FiniteSets, TLC

VARIABLES
    store,      \* MESSAGES_STORE
    req,        \* the request handled last
    resp,       \* the response to it: its status code and its text or JSON body
    prev,       \* MESSAGES_STORE when that request arrived
    called,     \* the provider calls made while handling it
    inflight,   \* sends whose provider call returned, not yet appended
    acked,      \* ids of the status events acknowledged with 200
    verify_token    \* WHATSAPP_VERIFY_TOKEN

vars == <<store, req, resp, prev, called, inflight, acked, verify_token>>

----------------------------------------------------------------------------
(* Bounds *)

MaxStore == 2        \* a request is explored while it leaves Len(store) <= MaxStore
MaxEntries == 2      \* entries in one webhook payload
ClockBase == 1700000000  \* the wall clock at start, epoch seconds
MaxSends == 2        \* sends of the threaded specification
MaxLog == 3          \* records stored under the clock that is set back and forth

----------------------------------------------------------------------------
(* Python values *)

None == "None"
EmptyDict == <<>>
NullObj == [json_null |-> TRUE]

IsDict(v) == "json_null" \notin DOMAIN v

\* dict.get(k)
Get(d, k) == IF k \in DOMAIN d THEN d[k] ELSE None

\* dict.get(k, default)
GetD(d, k, default) == IF k \in DOMAIN d THEN d[k] ELSE default

\* d[k] = v
SetKey(d, k, v) == [x \in DOMAIN d \cup {k} |-> IF x = k THEN v ELSE d[x]]

\* bool(v) of a string or None
Truthy(v) == v # None /\ v # ""

\* SetMin that picks the greatest element
SetMax(S) == CHOOSE i \in S : \A j \in S : j <= i

\* the least element of a set of numbers
SetMin(S) == CHOOSE i \in S : \A j \in S : i <= j

----------------------------------------------------------------------------
(* int(), datetime.fromtimestamp() and isoformat() *)

Digits == <<"0", "1", "2", "3", "4", "5", "6", "7", "8", "9">>

IsDigit(c) == \E i \in 1..10 : Digits[i] = c

DigitVal(c) == (CHOOSE i \in 1..10 : Digits[i] = c) - 1

\* int(s) raises ValueError unless s is a decimal numeral
IsNumeral(s) == Len(s) > 0 /\ \A i \in 1..Len(s) : IsDigit(s[i])

RECURSIVE IntOf(_)
IntOf(s) ==
    IF Len(s) = 0 THEN 0
    ELSE 10 * IntOf(SubSeq(s, 1, Len(s) - 1)) + DigitVal(s[Len(s)])

\* the proleptic Gregorian date of a day number, days counted from 1970-01-01
CivilFromDays(days) ==
    LET z == days + 719468
        era == z \div 146097
        doe == z - era * 146097
        yoe == (doe - doe \div 1460 + doe \div 36524 - doe \div 146096) \div 365
        doy == doe - (365 * yoe + yoe \div 4 - yoe \div 100)
        mp == (5 * doy + 2) \div 153
        d == doy - (153 * mp + 2) \div 5 + 1
        m == IF mp < 10 THEN mp + 3 ELSE mp - 9
        y == yoe + era * 400 + (IF m <= 2 THEN 1 ELSE 0)
    IN  [year |-> y, month |-> m, day |-> d]

\* datetime.datetime.fromtimestamp(n), the local zone being UTC
FromTimestamp(n) ==
    LET date == CivilFromDays(n \div 86400)
        secs == n % 86400
    IN  [year |-> date.year, month |-> date.month, day |-> date.day,
         hour |-> secs \div 3600, minute |-> (secs % 3600) \div 60,
         second |-> secs % 60]

RECURSIVE Pad(_, _)
Pad(n, width) ==
    IF width = 0 THEN <<>>
    ELSE Pad(n \div 10, width - 1) \o <<Digits[(n % 10) + 1]>>

\* datetime.isoformat() of a datetime with microsecond = 0
IsoFormat(dt) ==
    Pad(dt.year, 4) \o <<"-">> \o Pad(dt.month, 2) \o <<"-">> \o Pad(dt.day, 2)
        \o <<"T">> \o Pad(dt.hour, 2) \o <<":">> \o Pad(dt.minute, 2)
        \o <<":">> \o Pad(dt.second, 2)

\* the fraction isoformat() writes when the microsecond is not 0
Micro(usec) == IF usec = 0 THEN <<>> ELSE <<".">> \o Pad(usec, 6)

\* datetime.datetime.now().isoformat() when the wall clock reads t, a number
\* of seconds and of microseconds
NowIso(t) == IsoFormat(FromTimestamp(t.sec)) \o Micro(t.usec)

\* the wall clock as a request reads it: it has advanced by one second for
\* every stored record
Now == [sec |-> ClockBase + Len(store), usec |-> 0]

\* the code point of a character of an ISO-8601 text
Ord(c) ==
    CASE c = "-" -> 45
      [] c = "." -> 46
      [] c = ":" -> 58
      [] c = "T" -> 84
      [] OTHER -> 48 + DigitVal(c)

\* a < b of two str, compared code point by code point
StrLess(a, b) ==
    LET n == IF Len(a) < Len(b) THEN Len(a) ELSE Len(b)
        diff == {i \in 1..n : a[i] # b[i]}
    IN  IF diff = {} THEN Len(a) < Len(b)
        ELSE Ord(a[SetMin(diff)]) < Ord(b[SetMin(diff)])

\* x put into the sorted list q behind the records whose timestamp is not
\* greater than its own
Insert(q, x) ==
    LET k == Cardinality({i \in 1..Len(q) :
                            ~StrLess(x.timestamp, q[i].timestamp)})
    IN  SubSeq(q, 1, k) \o <<x>> \o SubSeq(q, k + 1, Len(q))

\* Sorted that returns the list in the order of insertion
SortedAsStored(s) == s

\* sorted(s, key=lambda x: x['timestamp']): a new list, the sort stable
RECURSIVE Sorted(_)
Sorted(s) ==
    IF s = <<>> THEN <<>>
    ELSE Insert(Sorted(SubSeq(s, 1, Len(s) - 1)), s[Len(s)])

----------------------------------------------------------------------------
(* POST /webhook: inbound messages *)

\* str.upper() on the message types of the inputs; a type with no lower-case
\* letter is its own upper case
Upper(t) ==
    CASE t = "sticker" -> "STICKER"
      [] t = "location" -> "LOCATION"
      [] t = "Button" -> "BUTTON"
      [] OTHER -> t

\* the sub-object of the message read by the branch of its type
SubObject(message_data) ==
    LET message_type == Get(message_data, "type")
    IN  IF message_type \in {"text", "image", "document", "video"}
        THEN GetD(message_data, message_type, EmptyDict)
        ELSE EmptyDict

\* the type dispatch raises AttributeError: .get on a null sub-object, or
\* .upper() on a missing type
TextBodyRaises(message_data) ==
    \/ ~IsDict(SubObject(message_data))
    \/ Get(message_data, "type") = None

\* TextBody with the prefix of the image branch in the video branch
TextBodyVideoAsImage(message_data) ==
    LET message_type == Get(message_data, "type")
        sub == SubObject(message_data)
    IN  CASE message_type = "text" -> Get(sub, "body")
          [] message_type = "image" ->
                "[Image] " \o GetD(sub, "caption", "No caption")
          [] message_type = "document" ->
                "[Document] " \o GetD(sub, "filename", "Unknown file")
          [] message_type = "audio" -> "[Audio message]"
          [] message_type = "video" ->
                "[Image] " \o GetD(sub, "caption", "No caption")
          [] OTHER -> "[" \o Upper(message_type) \o " message]"

TextBody(message_data) ==
    LET message_type == Get(message_data, "type")
        sub == SubObject(message_data)
    IN  CASE message_type = "text" -> Get(sub, "body")
          [] message_type = "image" ->
                "[Image] " \o GetD(sub, "caption", "No caption")
          [] message_type = "document" ->
                "[Document] " \o GetD(sub, "filename", "Unknown file")
          [] message_type = "audio" -> "[Audio message]"
          [] message_type = "video" ->
                "[Video] " \o GetD(sub, "caption", "No caption")
          [] OTHER -> "[" \o Upper(message_type) \o " message]"

\* the outcome of a part of a handler: the store it leaves and whether it
\* returned normally (ok) or raised
Ok(s) == [store |-> s, ok |-> TRUE]
Raise(s) == [store |-> s, ok |-> FALSE]

\* Storable without the test of the text
StorableSenderOnly(sender_id, text_body) == Truthy(sender_id)

\* the condition under which an inbound message is stored
Storable(sender_id, text_body) == Truthy(sender_id) /\ Truthy(text_body)

\* HandleMessage that drops a message whose id a stored inbound record has
HandleMessageOnce(s, message_data, now) ==
    IF TextBodyRaises(message_data) THEN Raise(s)
    ELSE
        LET message_type == Get(message_data, "type")
            sender_id == Get(message_data, "from")
            message_id == Get(message_data, "id")
            text_body == TextBody(message_data)
        IN  IF /\ Storable(sender_id, text_body)
               /\ \A i \in 1..Len(s) :
                     ~(s[i].direction = "in" /\ s[i].id = message_id)
            THEN Ok(Append(s, [id |-> message_id, sender |-> sender_id,
                               text |-> text_body, direction |-> "in",
                               timestamp |-> NowIso(now),
                               type |-> message_type]))
            ELSE Ok(s)

\* one iteration of the loop over value['messages']
HandleMessage(s, message_data, now) ==
    IF TextBodyRaises(message_data) THEN Raise(s)
    ELSE
        LET message_type == Get(message_data, "type")
            sender_id == Get(message_data, "from")
            message_id == Get(message_data, "id")
            text_body == TextBody(message_data)
        IN  IF Storable(sender_id, text_body)
            THEN Ok(Append(s, [id |-> message_id, sender |-> sender_id,
                               text |-> text_body, direction |-> "in",
                               timestamp |-> NowIso(now),
                               type |-> message_type]))
            ELSE Ok(s)

\* the loop over value['messages'], entered with the outcome r so far: an
\* exception ends it
RECURSIVE HandleMessages(_, _, _)
HandleMessages(r, messages, now) ==
    IF ~r.ok \/ messages = <<>> THEN r
    ELSE HandleMessages(HandleMessage(r.store, Head(messages), now),
                        Tail(messages), now)

----------------------------------------------------------------------------
(* POST /webhook: status updates *)

\* Matches without the test of the id
MatchesAnyOutbound(msg, message_id) == msg.direction = "out"

\* Matches without the test of the direction
MatchesAnyDirection(msg, message_id) == Get(msg, "id") = message_id

\* the test of the scan over MESSAGES_STORE
Matches(msg, message_id) ==
    Get(msg, "id") = message_id /\ msg.direction = "out"

\* bool(timestamp_s)
HasTimestamp(status_data) ==
    "timestamp" \in DOMAIN status_data /\ status_data.timestamp # <<>>

\* HandleStatus that writes the converted time to the key 'timestamp'
HandleStatusStampsTimestamp(s, status_data) ==
    LET message_id == Get(status_data, "id")
        status == Get(status_data, "status")
        hits == {i \in 1..Len(s) : Matches(s[i], message_id)}
    IN  IF hits = {} THEN Ok(s)
        ELSE
            LET i == SetMin(hits)
                marked == [s EXCEPT ![i] = SetKey(@, "status", status)]
            IN  IF ~HasTimestamp(status_data) THEN Ok(marked)
                ELSE IF ~IsNumeral(status_data.timestamp) THEN Raise(marked)
                ELSE Ok([marked EXCEPT ![i] =
                            SetKey(@, "timestamp",
                                   IsoFormat(FromTimestamp(
                                       IntOf(status_data.timestamp))))])

\* one iteration of the loop over value['statuses']
HandleStatus(s, status_data) ==
    LET message_id == Get(status_data, "id")
        status == Get(status_data, "status")
        hits == {i \in 1..Len(s) : Matches(s[i], message_id)}
    IN  IF hits = {} THEN Ok(s)
        ELSE
            LET i == SetMin(hits)
                marked == [s EXCEPT ![i] = SetKey(@, "status", status)]
            IN  IF ~HasTimestamp(status_data) THEN Ok(marked)
                ELSE IF ~IsNumeral(status_data.timestamp) THEN Raise(marked)
                ELSE Ok([marked EXCEPT ![i] =
                            SetKey(@, "timestamp_status_update",
                                   IsoFormat(FromTimestamp(
                                       IntOf(status_data.timestamp))))])

\* the loop over value['statuses']
RECURSIVE HandleStatuses(_, _)
HandleStatuses(r, statuses) ==
    IF ~r.ok \/ statuses = <<>> THEN r
    ELSE HandleStatuses(HandleStatus(r.store, Head(statuses)), Tail(statuses))

----------------------------------------------------------------------------
(* POST /webhook: the payload *)

\* the body of the loop over entry['changes']; the 'in' test raises on a
\* null value
HandleChange(s, change, now) ==
    IF Get(change, "field") # "messages" THEN Ok(s)
    ELSE
        LET value == GetD(change, "value", EmptyDict)
        IN  IF ~IsDict(value) THEN Raise(s)
            ELSE IF "messages" \in DOMAIN value
            THEN HandleMessages(Ok(s), value.messages, now)
            ELSE IF "statuses" \in DOMAIN value
            THEN HandleStatuses(Ok(s), value.statuses)
            ELSE Ok(s)

\* the loop over entry['changes']
RECURSIVE HandleChanges(_, _, _)
HandleChanges(r, changes, now) ==
    IF ~r.ok \/ changes = <<>> THEN r
    ELSE HandleChanges(HandleChange(r.store, Head(changes), now),
                       Tail(changes), now)

\* the body of the loop over data['entry']; entry.get raises on a non-object
HandleEntry(s, entry, now) ==
    IF ~IsDict(entry) THEN Raise(s)
    ELSE HandleChanges(Ok(s), GetD(entry, "changes", <<>>), now)

\* the loop over data['entry']
RECURSIVE HandleEntries(_, _, _)
HandleEntries(r, entries, now) ==
    IF ~r.ok \/ entries = <<>> THEN r
    ELSE HandleEntries(HandleEntry(r.store, Head(entries), now),
                       Tail(entries), now)

\* the try block of the POST branch of webhook()
HandlePost(s, data, now) ==
    IF ~IsDict(data) THEN Raise(s)
    ELSE IF Get(data, "object") = "whatsapp_business_account"
    THEN HandleEntries(Ok(s), GetD(data, "entry", <<>>), now)
    ELSE Ok(s)

\* the POST branch of webhook(): the store it leaves and its response
WebhookPostResult(s, data, now) ==
    LET r == HandlePost(s, data, now)
    IN  [store |-> r.store,
         resp |-> IF r.ok THEN [code |-> 200, text |-> "EVENT_RECEIVED"]
                  ELSE [code |-> 500, text |-> "ERROR"]]

----------------------------------------------------------------------------
(* POST /send_message *)

\* Validates without the test of the text
ValidatesRecipientOnly(recipient_wa_id, message_text) == Truthy(recipient_wa_id)

\* the negation of the test that answers 400
Validates(recipient_wa_id, message_text) ==
    Truthy(recipient_wa_id) /\ Truthy(message_text)

\* ProviderRaises without the call of raise_for_status
ProviderRaisesNetworkOnly(provider) == provider.kind = "network_error"

\* requests.post raises (network failure) or raise_for_status raises (4xx, 5xx)
ProviderRaises(provider) ==
    \/ provider.kind = "network_error"
    \/ provider.code >= 400

\* response_data.get("messages", [{}])[0] raises IndexError
MessageIdRaises(response_data) ==
    "messages" \in DOMAIN response_data /\ response_data.messages = <<>>

\* response_data.get("messages", [{}])[0].get("id")
MessageIdWa(response_data) ==
    Get(Head(GetD(response_data, "messages", <<EmptyDict>>)), "id")

\* WHATSAPP_PHONE_NUMBER_ID
PhoneNumberId == "15550001111"

\* OutgoingRecord with sender and recipient exchanged
OutgoingRecordExchanged(message_id_wa, recipient_wa_id, message_text, now) ==
    [id |-> message_id_wa, sender |-> recipient_wa_id,
     recipient |-> PhoneNumberId, text |-> message_text,
     direction |-> "out", timestamp |-> NowIso(now), status |-> "sent"]

\* the record send_message_route() appends
OutgoingRecord(message_id_wa, recipient_wa_id, message_text, now) ==
    [id |-> message_id_wa, sender |-> PhoneNumberId,
     recipient |-> recipient_wa_id, text |-> message_text,
     direction |-> "out", timestamp |-> NowIso(now), status |-> "sent"]

ErrorBody(message) == [status |-> "error", message |-> message]

\* send_message_route(): the store it leaves, its response, and the number
\* of calls it made to the provider
SendResult(s, data, provider, now) ==
    LET recipient_wa_id == Get(data, "recipient_wa_id")
        message_text == Get(data, "message_text")
    IN  IF ~Validates(recipient_wa_id, message_text)
        THEN [store |-> s, called |-> 0,
              resp |-> [code |-> 400, json |->
                  ErrorBody("Recipient ID and message text are required.")]]
        ELSE IF ProviderRaises(provider)
        THEN [store |-> s, called |-> 1,
              resp |-> [code |-> 500, json |->
                  ErrorBody("Error sending WhatsApp message")]]
        ELSE IF MessageIdRaises(provider.json)
        THEN [store |-> s, called |-> 1,
              resp |-> [code |-> 500, json |->
                  ErrorBody("An unexpected error occurred.")]]
        ELSE
            LET message_id_wa == MessageIdWa(provider.json)
            IN  [store |-> Append(s, OutgoingRecord(message_id_wa,
                                   recipient_wa_id, message_text, now)),
                 called |-> 1,
                 resp |-> [code |-> 200, json |->
                     [status |-> "success", data |-> provider.json,
                      message_id |-> message_id_wa]]]

----------------------------------------------------------------------------
(* Inputs *)

TextMessage(id, from, body) ==
    [type |-> "text", from |-> from, id |-> id, text |-> [body |-> body]]

InboundMessages ==
    { TextMessage("X", "u1", "hello"),               \* stored
      TextMessage("m2", "", "hello"),                \* empty sender
      [type |-> "text", id |-> "m3", text |-> [body |-> "hello"]],
                                                     \* no sender
      TextMessage("m4", "u1", ""),                   \* empty body
      [from |-> "u1", id |-> "m6"] }                 \* no type: raises

Epoch == <<"1", "7", "0", "0", "0", "0", "0", "0", "0", "0">>
EpochDayEnd == <<"8", "6", "3", "9", "9">>

StatusEvents ==
    { [id |-> "X", status |-> "delivered", recipient_id |-> "r1",
       timestamp |-> Epoch],
      [id |-> "X", status |-> "read", recipient_id |-> "r1"],
      [id |-> "X", status |-> "read", recipient_id |-> "r1",
       timestamp |-> EpochDayEnd],
      [id |-> "X", status |-> "failed", recipient_id |-> "r1",
       timestamp |-> <<"1", "7", "x">>],
      [id |-> "Z", status |-> "delivered", recipient_id |-> "r1",
       timestamp |-> <<"1", "7", "x">>] }

\* a status event that carries no id
NoIdStatus ==
    [status |-> "delivered", recipient_id |-> "r1", timestamp |-> Epoch]

MessagesChange(value) == [field |-> "messages", value |-> value]

Entry(change) == [id |-> "waba", changes |-> <<change>>]

Entries ==
    { Entry(MessagesChange([messages |-> <<m>>])) : m \in InboundMessages }
    \cup { Entry(MessagesChange([statuses |-> <<sd>>])) : sd \in StatusEvents }
    \cup { Entry(MessagesChange([messages |-> <<TextMessage("X", "u1", "hello")>>,
                                 statuses |-> <<sd>>])) :
              sd \in {e \in StatusEvents : e.status = "delivered" /\ e.id = "X"} }
    \cup { Entry([field |-> "account_update", value |-> EmptyDict]), NullObj,
           Entry(MessagesChange([statuses |-> <<NoIdStatus>>])) }

MessagePayload(message_data) ==
    [object |-> "whatsapp_business_account",
     entry |-> <<Entry(MessagesChange([messages |-> <<message_data>>]))>>]

StatusPayload(status_data) ==
    [object |-> "whatsapp_business_account",
     entry |-> <<Entry(MessagesChange([statuses |-> <<status_data>>]))>>]

RECURSIVE SeqsUpTo(_, _)
SeqsUpTo(S, n) ==
    IF n = 0 THEN {<<>>}
    ELSE LET shorter == SeqsUpTo(S, n - 1)
         IN  shorter \cup {Append(q, e) : q \in shorter, e \in S}

Payloads ==
    { [object |-> "whatsapp_business_account", entry |-> es] :
          es \in SeqsUpTo(Entries, MaxEntries) }
    \cup { [object |-> "page", entry |-> <<e>>] : e \in Entries }
    \cup { NullObj }

SendRequests ==
    { EmptyDict,
      [recipient_wa_id |-> ""],
      [recipient_wa_id |-> "r1"],
      [message_text |-> ""],
      [message_text |-> "hi"],
      [recipient_wa_id |-> "", message_text |-> ""],
      [recipient_wa_id |-> "", message_text |-> "hi"],
      [recipient_wa_id |-> "r1", message_text |-> ""],
      [recipient_wa_id |-> "r1", message_text |-> "hi"] }

ProviderOutcomes ==
    { [kind |-> "network_error"],
      [kind |-> "http", code |-> 401,
       json |-> [error |-> [message |-> "Invalid OAuth access token"]]],
      [kind |-> "http", code |-> 500,
       json |-> [error |-> [message |-> "Internal error"]]],
      [kind |-> "http", code |-> 200,
       json |-> [messaging_product |-> "whatsapp",
                 messages |-> <<[id |-> "X"]>>]],
      [kind |-> "http", code |-> 200,
       json |-> [messaging_product |-> "whatsapp"]],
      [kind |-> "http", code |-> 200,
       json |-> [messaging_product |-> "whatsapp", messages |-> <<>>]] }

NotCalled == [kind |-> "not_called"]

\* inbound messages of every type the handler distinguishes
TypedMessages ==
    { [type |-> "text", from |-> "u1", id |-> "t1", text |-> [body |-> "hello"]],
      [type |-> "text", from |-> "u1", id |-> "t2", text |-> [body |-> ""]],
      [type |-> "text", from |-> "u1", id |-> "t3"],
      [type |-> "image", from |-> "u1", id |-> "i1",
       image |-> [caption |-> "cat"]],
      [type |-> "image", from |-> "u2", id |-> "i2", image |-> [id |-> "media"]],
      [type |-> "image", from |-> "", id |-> "i3", image |-> [caption |-> "cat"]],
      [type |-> "image", from |-> "u1", id |-> "i4", image |-> NullObj],
      [type |-> "document", from |-> "u1", id |-> "d1",
       document |-> [filename |-> "a.pdf"]],
      [type |-> "document", from |-> "u1", id |-> "d2"],
      [type |-> "audio", from |-> "u1", id |-> "a1", audio |-> [id |-> "media"]],
      [type |-> "video", from |-> "u1", id |-> "v1",
       video |-> [caption |-> "dog"]],
      [type |-> "video", from |-> "u1", id |-> "v2", video |-> [id |-> "media"]],
      [type |-> "sticker", from |-> "u1", id |-> "s1"],
      [type |-> "location", from |-> "u2", id |-> "l1"],
      [type |-> "Button", from |-> "u1", id |-> "b1"],
      [type |-> "", from |-> "u1", id |-> "e1"] }

\* the message lists of the typed payloads: one message, or two of them
TypedLists ==
    { <<m>> : m \in TypedMessages }
    \cup { <<m1, m2>> : m1 \in TypedMessages,
                        m2 \in {m \in TypedMessages : m.type \in {"text", "video"}} }

TypedPayload(messages) ==
    [object |-> "whatsapp_business_account",
     entry |-> <<Entry(MessagesChange([messages |-> messages]))>>]

----------------------------------------------------------------------------
(* The server handling one request at a time *)

Idle == [op |-> "idle"]
NoResponse == [code |-> 0]

\* the value of WHATSAPP_VERIFY_TOKEN in a deployment that sets it
ConfiguredToken == "s3cret"

Init ==
    /\ store = <<>>
    /\ req = Idle
    /\ resp = NoResponse
    /\ prev = <<>>
    /\ called = 0
    /\ inflight = {}
    /\ acked = {}
    /\ verify_token = ConfiguredToken

\* POST /webhook
WebhookPost ==
    /\ req = Idle
    /\ \E data \in Payloads :
          \E r \in {WebhookPostResult(store, data, Now)} :
              /\ Len(r.store) <= MaxStore
              /\ store' = r.store
              /\ resp' = r.resp
              /\ req' = [op |-> "webhook_post", data |-> data]
    /\ prev' = store
    /\ called' = 0
    /\ UNCHANGED <<verify_token, inflight, acked>>

\* POST /send_message; the provider is part of the environment, and answers
\* only when it is called
SendMessage ==
    /\ req = Idle
    /\ \E data \in SendRequests :
       \E provider \in
             IF Validates(Get(data, "recipient_wa_id"), Get(data, "message_text"))
             THEN ProviderOutcomes ELSE {NotCalled} :
          \E r \in {SendResult(store, data, provider, Now)} :
              /\ Len(r.store) <= MaxStore
              /\ store' = r.store
              /\ resp' = r.resp
              /\ called' = r.called
              /\ req' = [op |-> "send_message", data |-> data,
                         provider |-> provider]
    /\ prev' = store
    /\ UNCHANGED <<verify_token, inflight, acked>>

\* the response is delivered and the server waits for the next request
Respond ==
    /\ req # Idle
    /\ req' = Idle
    /\ resp' = NoResponse
    /\ prev' = <<>>
    /\ called' = 0
    /\ UNCHANGED <<verify_token, store, inflight, acked>>

Next == WebhookPost \/ SendMessage \/ Respond

Spec == Init /\ [][Next]_vars

----------------------------------------------------------------------------
(* The threaded server: send_message_route() blocks in requests.post, and   *)
(* other requests are handled before it goes on to append its record.  The  *)
(* scan of a status event and list.append are each atomic.                  *)

\* the id the provider assigns to the next message it accepts
NextWamid == "wamid." \o ToString(Len(store) + Cardinality(inflight) + 1)

Accepted(id) ==
    [kind |-> "http", code |-> 200,
     json |-> [messaging_product |-> "whatsapp", messages |-> <<[id |-> id]>>]]

\* the ids the provider has assigned so far
AssignedIds ==
    {MessageIdWa(p.provider.json) : p \in inflight}
        \cup {store[i].id : i \in {j \in 1..Len(store) : store[j].direction = "out"}}

\* send_message_route() up to the return of the provider call
SendBegin ==
    /\ Len(store) + Cardinality(inflight) < MaxSends
    /\ \E data \in SendRequests :
          LET provider == Accepted(NextWamid)
          IN  /\ Validates(Get(data, "recipient_wa_id"), Get(data, "message_text"))
              /\ ~ProviderRaises(provider)
              /\ ~MessageIdRaises(provider.json)
              /\ inflight' = inflight \cup {[data |-> data, provider |-> provider]}
    /\ UNCHANGED <<verify_token, store, req, resp, prev, called, acked>>

\* send_message_route() from the return of the provider call on
SendFinish ==
    /\ \E p \in inflight :
          /\ store' = Append(store,
                 OutgoingRecord(MessageIdWa(p.provider.json),
                                Get(p.data, "recipient_wa_id"),
                                Get(p.data, "message_text"), Now))
          /\ inflight' = inflight \ {p}
    /\ UNCHANGED <<verify_token, req, resp, prev, called, acked>>

\* POST /webhook with a status event of a message the provider has accepted
DeliverStatus ==
    /\ \E id \in AssignedIds, status \in {"delivered", "read", "failed"},
          timestamp \in {<<>>, Epoch} :
          LET status_data == [id |-> id, status |-> status,
                              recipient_id |-> "r1", timestamp |-> timestamp]
              r == WebhookPostResult(store, StatusPayload(status_data), Now)
          IN  /\ store' = r.store
              /\ acked' = IF r.resp.code = 200 THEN acked \cup {id} ELSE acked
    /\ UNCHANGED <<verify_token, req, resp, prev, called, inflight>>

NextConc == SendBegin \/ SendFinish \/ DeliverStatus

SpecConc == Init /\ [][NextConc]_vars

----------------------------------------------------------------------------
(* The server under a wall clock that is set back and forth between          *)
(* requests, and the message list read by the UI                            *)

\* what datetime.now() can read: the local clock is not monotonic
ClockReadings ==
    { [sec |-> ClockBase + d, usec |-> u] : d \in {0, 1}, u \in {0, 500000} }

\* POST /webhook with one text message, the clock reading now
ReceiveAt ==
    /\ req = Idle
    /\ Len(store) < MaxLog
    /\ \E now \in ClockReadings :
          LET data == MessagePayload(TextMessage("X", "u1", "hello"))
              r == WebhookPostResult(store, data, now)
          IN  /\ store' = r.store
              /\ resp' = r.resp
              /\ req' = [op |-> "webhook_post", data |-> data]
    /\ prev' = store
    /\ called' = 0
    /\ UNCHANGED <<verify_token, inflight, acked>>

\* POST /send_message the provider accepts, the clock reading now
SendAt ==
    /\ req = Idle
    /\ Len(store) < MaxLog
    /\ \E now \in ClockReadings :
          LET data == [recipient_wa_id |-> "r1", message_text |-> "hi"]
              provider == Accepted("X")
              r == SendResult(store, data, provider, now)
          IN  /\ store' = r.store
              /\ resp' = r.resp
              /\ called' = r.called
              /\ req' = [op |-> "send_message", data |-> data,
                         provider |-> provider]
    /\ prev' = store
    /\ UNCHANGED <<verify_token, inflight, acked>>

\* get_messages_route()
GetMessages ==
    /\ req = Idle
    /\ req' = [op |-> "get_messages"]
    /\ resp' = [code |-> 200,
                json |-> [messages |-> Sorted(store), count |-> Len(store)]]
    /\ prev' = store
    /\ called' = 0
    /\ UNCHANGED <<verify_token, store, inflight, acked>>

NextClock == ReceiveAt \/ SendAt \/ GetMessages \/ Respond

SpecClock == Init /\ [][NextClock]_vars

----------------------------------------------------------------------------
(* The subscription handshake, in a deployment with or without a verify     *)
(* token                                                                    *)

\* the GET branch of webhook(); mode, token and challenge are what
\* request.args.get returns, None for a parameter the request omits.  A view
\* that returns None as the body makes Flask raise TypeError, and the
\* response is 500.
WebhookGetResult(mode, token, challenge, configured) ==
    IF mode = "subscribe" /\ token = configured
    THEN IF challenge = None
         THEN [code |-> 500, text |-> "Internal Server Error"]
         ELSE [code |-> 200, text |-> challenge]
    ELSE [code |-> 403, text |-> "Verification failed"]

\* the query parameters of the verification requests
Modes == {None, "subscribe", "unsubscribe", ""}
Tokens == {None, ConfiguredToken, "guess", ""}
Challenges == {None, "1158201444"}

\* os.getenv('WHATSAPP_VERIFY_TOKEN') is None when the variable is unset
InitVerify ==
    /\ store = <<>>
    /\ req = Idle
    /\ resp = NoResponse
    /\ prev = <<>>
    /\ called = 0
    /\ inflight = {}
    /\ acked = {}
    /\ verify_token \in {None, ConfiguredToken}

\* GET /webhook
WebhookGet ==
    /\ req = Idle
    /\ \E mode \in Modes, token \in Tokens, challenge \in Challenges :
          /\ req' = [op |-> "webhook_get", mode |-> mode, token |-> token,
                     challenge |-> challenge]
          /\ resp' = WebhookGetResult(mode, token, challenge, verify_token)
    /\ prev' = store
    /\ called' = 0
    /\ UNCHANGED <<verify_token, store, inflight, acked>>

NextVerify == WebhookGet \/ SendMessage \/ Respond

SpecVerify == InitVerify /\ [][NextVerify]_vars

----------------------------------------------------------------------------
(* The server receiving messages of every type, and the provider delivering *)
(* a payload a second time                                                  *)

\* POST /webhook with a list of typed messages
ReceiveMessages ==
    /\ req = Idle
    /\ Len(store) <= MaxStore
    /\ \E messages \in TypedLists :
          LET data == TypedPayload(messages)
              r == WebhookPostResult(store, data, Now)
          IN  /\ Len(r.store) <= MaxStore
              /\ store' = r.store
              /\ resp' = r.resp
              /\ req' = [op |-> "webhook_post", data |-> data]
    /\ prev' = store
    /\ called' = 0
    /\ UNCHANGED <<verify_token, inflight, acked>>

\* POST /webhook with the payload of the request in service, once more; prev
\* stays the store as it was before the first delivery
Replay ==
    /\ req.op = "webhook_post"
    /\ LET r == WebhookPostResult(store, req.data, Now)
       IN  /\ store' = r.store
           /\ resp' = r.resp
    /\ req' = [op |-> "webhook_replay", data |-> req.data]
    /\ UNCHANGED <<verify_token, prev, called, inflight, acked>>

NextInbound == ReceiveMessages \/ Replay \/ Respond

SpecInbound == Init /\ [][NextInbound]_vars

----------------------------------------------------------------------------
(* Properties *)

IsPost == req.op = "webhook_post"
IsSend == req.op = "send_message"

Blank(v) == v = None \/ v = ""

\* the positions of the outbound records of s whose id is x
Outbound(s, x) == {i \in 1..Len(s) : s[i].direction = "out" /\ s[i].id = x}

Inbound(s) == {i \in 1..Len(s) : s[i].direction = "in"}

\* isoformat() of the two epochs of StatusEvents, written out
Iso1700000000 ==
    <<"2", "0", "2", "3", "-", "1", "1", "-", "1", "4", "T",
      "2", "2", ":", "1", "3", ":", "2", "0">>
Iso86399 ==
    <<"1", "9", "7", "0", "-", "0", "1", "-", "0", "1", "T",
      "2", "3", ":", "5", "9", ":", "5", "9">>
IsoOf(timestamp_s) == IF timestamp_s = Epoch THEN Iso1700000000 ELSE Iso86399

StatusFields == {"status", "timestamp_status_update"}

\* C1: when the store holds exactly one outbound record with id X and POST
\* /webhook handles one status event {id: X, status: S, timestamp: t}, t an
\* epoch, the store keeps its length and its one outbound record with id X,
\* that record gets status S and timestamp_status_update the ISO text of t
\* and keeps its other fields, and every other record is unchanged.
C1_StatusCorrelation ==
    \A sd \in StatusEvents :
        ( /\ IsPost
          /\ req.data = StatusPayload(sd)
          /\ "timestamp" \in DOMAIN sd
          /\ sd.timestamp \in {Epoch, EpochDayEnd}
          /\ Cardinality(Outbound(prev, sd.id)) = 1 )
        => /\ Len(store) = Len(prev)
           /\ Outbound(store, sd.id) = Outbound(prev, sd.id)
           /\ resp.code = 200
           /\ \A i \in 1..Len(prev) :
                IF i \in Outbound(prev, sd.id)
                THEN /\ store[i].status = sd.status
                     /\ store[i].timestamp_status_update = IsoOf(sd.timestamp)
                     /\ DOMAIN store[i] = DOMAIN prev[i] \cup StatusFields
                     /\ \A k \in DOMAIN prev[i] \ StatusFields :
                            store[i][k] = prev[i][k]
                ELSE store[i] = prev[i]

\* the spec's example: delivered at 1700000000, on a store of two records
C1_Witness ==
    /\ IsPost
    /\ \E sd \in StatusEvents :
          /\ req.data = StatusPayload(sd)
          /\ sd.status = "delivered"
          /\ "timestamp" \in DOMAIN sd /\ sd.timestamp = Epoch
          /\ Cardinality(Outbound(prev, sd.id)) = 1
          /\ \E i \in Outbound(store, sd.id) :
                store[i].timestamp_status_update = Iso1700000000
    /\ Len(prev) = 2

\* the payload is made of status events only
StatusesOnly(data) ==
    /\ IsDict(data)
    /\ data.object = "whatsapp_business_account"
    /\ data.entry # <<>>
    /\ \A j \in 1..Len(data.entry) :
          /\ IsDict(data.entry[j])
          /\ \A k \in 1..Len(data.entry[j].changes) :
                /\ data.entry[j].changes[k].field = "messages"
                /\ DOMAIN data.entry[j].changes[k].value = {"statuses"}

StatusesIn(data) ==
    UNION { UNION { {data.entry[j].changes[k].value.statuses[n] :
                        n \in 1..Len(data.entry[j].changes[k].value.statuses)} :
                    k \in 1..Len(data.entry[j].changes) } :
            j \in 1..Len(data.entry) }

\* C2: status events whose ids match no stored outbound record (unknown
\* ids, or ids carried by inbound records only) leave the store as it was,
\* and the webhook responds 200.
C2_UnknownIdNoChange ==
    ( /\ IsPost
      /\ StatusesOnly(req.data)
      /\ \A sd \in StatusesIn(req.data) : Outbound(prev, Get(sd, "id")) = {} )
    => store = prev /\ resp.code = 200

\* a status event for the id of a stored inbound record was handled
C2_Witness ==
    /\ IsPost
    /\ StatusesOnly(req.data)
    /\ \A sd \in StatusesIn(req.data) : Outbound(prev, Get(sd, "id")) = {}
    /\ \E sd \in StatusesIn(req.data) :
          \E i \in Inbound(prev) : prev[i].id = Get(sd, "id")
    /\ resp.code = 200

\* C3: in the threaded server no status update is lost: a stored outbound
\* record whose status event was acknowledged after the provider accepted
\* the send does not still have status 'sent'.
C3_NoStatusLost ==
    \A i \in 1..Len(store) :
        (store[i].direction = "out" /\ store[i].id \in acked)
            => store[i].status # "sent"

\* the payload is one change whose value has both lists
HasBoth(data) ==
    /\ IsDict(data)
    /\ data.object = "whatsapp_business_account"
    /\ Len(data.entry) = 1
    /\ IsDict(data.entry[1])
    /\ {"messages", "statuses"} \subseteq DOMAIN data.entry[1].changes[1].value

\* C4: a change whose value has an inbound-messages list and a status-updates
\* list gets both handled: the message is appended and every status event is
\* applied to its outbound record.
C4_BothProcessed ==
    (IsPost /\ HasBoth(req.data))
    => LET value == req.data.entry[1].changes[1].value
       IN  /\ Len(store) = Len(prev) + Len(value.messages)
           /\ \A n \in 1..Len(value.statuses) :
                 \A i \in Outbound(prev, value.statuses[n].id) :
                     store[i].status = value.statuses[n].status

\* an entry that is no object, or whose message has no type
Malformed(entry) ==
    \/ ~IsDict(entry)
    \/ /\ "messages" \in DOMAIN entry.changes[1].value
       /\ "type" \notin DOMAIN entry.changes[1].value.messages[1]

\* an entry with one text message that has a sender and a body
WellFormedMessage(entry) ==
    /\ IsDict(entry)
    /\ "messages" \in DOMAIN entry.changes[1].value
    /\ LET message_data == entry.changes[1].value.messages[1]
       IN  /\ DOMAIN message_data = {"type", "from", "id", "text"}
           /\ ~Blank(message_data.from)
           /\ ~Blank(message_data.text.body)

\* C5: a malformed entry or message is skipped and the well-formed message
\* that follows it in the payload is still appended.
C5_MalformedSkipped ==
    ( /\ IsPost
      /\ IsDict(req.data)
      /\ req.data.object = "whatsapp_business_account"
      /\ Len(req.data.entry) = 2
      /\ Malformed(req.data.entry[1])
      /\ WellFormedMessage(req.data.entry[2]) )
    => /\ Len(store) = Len(prev) + 1
       /\ store[Len(store)].direction = "in"
       /\ store[Len(store)].id =
              req.data.entry[2].changes[1].value.messages[1].id

\* C6: a success answer of the provider with no 'messages' field or with an
\* empty 'messages' list appends one outbound record with id None and the
\* send succeeds.
C6_UnexpectedShapeTolerated ==
    ( /\ IsSend
      /\ req.provider.kind = "http"
      /\ req.provider.code = 200
      /\ \/ "messages" \notin DOMAIN req.provider.json
         \/ req.provider.json.messages = <<>> )
    => /\ resp.code = 200
       /\ Len(store) = Len(prev) + 1
       /\ store[Len(store)].direction = "out"
       /\ store[Len(store)].id = None

\* C7: a send with an empty or missing recipient_wa_id or message_text is
\* answered 400, calls the provider not at all and leaves the store as it was.
C7_ValidationFailure ==
    ( /\ IsSend
      /\ \/ Blank(Get(req.data, "recipient_wa_id"))
         \/ Blank(Get(req.data, "message_text")) )
    => resp.code = 400 /\ called = 0 /\ store = prev

\* a send with a recipient and an empty text was refused on a non-empty store
C7_Witness ==
    /\ IsSend
    /\ ~Blank(Get(req.data, "recipient_wa_id"))
    /\ Get(req.data, "message_text") = ""
    /\ resp.code = 400
    /\ prev # <<>>

\* C8: when the provider call fails (network failure, or a 4xx/5xx answer)
\* the send is answered 500 with status 'error' and nothing is appended.
C8_UpstreamFailure ==
    ( /\ IsSend
      /\ \/ req.provider.kind = "network_error"
         \/ (req.provider.kind = "http" /\ req.provider.code >= 400) )
    => resp.code = 500 /\ resp.json.status = "error" /\ store = prev

\* the provider answered 500 to a send on a non-empty store
C8_Witness ==
    /\ IsSend
    /\ req.provider.kind = "http"
    /\ req.provider.code = 500
    /\ called = 1
    /\ resp.code = 500
    /\ prev # <<>>

\* messages[0].id of the provider's answer, None when it has no 'messages'
ProviderMessageId(json) ==
    IF "messages" \in DOMAIN json THEN json.messages[1].id ELSE None

\* C9: a successful send appends exactly one record, at the end: direction
\* 'out', status 'sent', the request's recipient and text, the provider's
\* messages[0].id as id; the response carries the same id; the records
\* stored before are unchanged.
C9_SendAppendsOne ==
    (IsSend /\ resp.code = 200)
    => /\ Len(store) = Len(prev) + 1
       /\ SubSeq(store, 1, Len(prev)) = prev
       /\ LET message_obj == store[Len(store)]
          IN  /\ message_obj.direction = "out"
              /\ message_obj.status = "sent"
              /\ message_obj.recipient = req.data.recipient_wa_id
              /\ message_obj.text = req.data.message_text
              /\ message_obj.id = ProviderMessageId(req.provider.json)
              /\ resp.json.status = "success"
              /\ resp.json.message_id = message_obj.id

\* a send the provider answered with an id succeeded on a non-empty store
C9_Witness ==
    /\ IsSend
    /\ resp.code = 200
    /\ "messages" \in DOMAIN req.provider.json
    /\ store[Len(store)].id = "X"
    /\ prev # <<>>

\* C10: no stored record has a null or empty text, and no stored inbound
\* record has a null or empty sender.
C10_NoEmptyTextOrSender ==
    \A i \in 1..Len(store) :
        /\ ~Blank(store[i].text)
        /\ store[i].direction = "in" => ~Blank(store[i].sender)

\* a payload with a message without sender and a message with an empty body
\* was handled, and dropped both, on a store that holds an inbound record
C10_Witness ==
    /\ IsPost
    /\ IsDict(req.data)
    /\ req.data.object = "whatsapp_business_account"
    /\ Len(req.data.entry) = 2
    /\ \E m1, m2 \in InboundMessages :
          /\ req.data.entry = <<Entry(MessagesChange([messages |-> <<m1>>])),
                                Entry(MessagesChange([messages |-> <<m2>>]))>>
          /\ "from" \notin DOMAIN m1
          /\ "text" \in DOMAIN m2 /\ m2.text.body = ""
    /\ resp.code = 200
    /\ store = prev
    /\ Inbound(store) # {}

\* the messages of a payload made by TypedPayload
MessagesOf(data) == data.entry[1].changes[1].value.messages

\* m[obj][key], or default when the message has no such sub-object or key
Field(m, obj, key, default) ==
    IF obj \in DOMAIN m /\ key \in DOMAIN m[obj] THEN m[obj][key] ELSE default

\* the text the claim gives for a message, the upper case written out
ExpectedText(m) ==
    CASE m.type = "text" -> Field(m, "text", "body", None)
      [] m.type = "image" -> "[Image] " \o Field(m, "image", "caption", "No caption")
      [] m.type = "document" ->
            "[Document] " \o Field(m, "document", "filename", "Unknown file")
      [] m.type = "audio" -> "[Audio message]"
      [] m.type = "video" -> "[Video] " \o Field(m, "video", "caption", "No caption")
      [] m.type = "sticker" -> "[STICKER message]"
      [] m.type = "location" -> "[LOCATION message]"
      [] m.type = "Button" -> "[BUTTON message]"
      [] m.type = "" -> "[ message]"

\* the message has a sender and a text to store
Kept(m) == m.from # "" /\ ExpectedText(m) \notin {"", None}

\* C11: the records a webhook request appends are, in order, those of its
\* messages that have a sender and a text; each has direction 'in', the
\* message's sender, id and type, and the text derived from the type: the
\* body of a text, '[Image] ' + caption (default 'No caption'),
\* '[Document] ' + filename (default 'Unknown file'), '[Audio message]',
\* '[Video] ' + caption (default 'No caption'), '[' + upper-case type +
\* ' message]' for any other type.
C11_TextDerivedFromType ==
    (IsPost /\ resp.code = 200)
    => LET kept == SelectSeq(MessagesOf(req.data), Kept)
       IN  /\ Len(store) = Len(prev) + Len(kept)
           /\ SubSeq(store, 1, Len(prev)) = prev
           /\ \A j \in 1..Len(kept) :
                 LET message_obj == store[Len(prev) + j]
                 IN  /\ message_obj.direction = "in"
                     /\ message_obj.text = ExpectedText(kept[j])
                     /\ message_obj.sender = kept[j].from
                     /\ message_obj.id = kept[j].id
                     /\ message_obj.type = kept[j].type

\* a sticker and a video without caption arrived in one payload and both
\* were stored
C11_Witness ==
    /\ IsPost
    /\ resp.code = 200
    /\ Len(MessagesOf(req.data)) = 2
    /\ MessagesOf(req.data)[1].type = "sticker"
    /\ MessagesOf(req.data)[2].type = "video"
    /\ "caption" \notin DOMAIN MessagesOf(req.data)[2].video
    /\ Len(store) = Len(prev) + 2
    /\ store[Len(store) - 1].text = "[STICKER message]"
    /\ store[Len(store)].text = "[Video] No caption"

IsReplay == req.op = "webhook_replay"

\* the message is one the handler stores
Valid(m) == Kept(m) /\ (m.type \in DOMAIN m => IsDict(m[m.type]))

\* C13: when a payload of n valid inbound messages has been delivered twice,
\* the store has grown by 2n records: the n records of the first delivery
\* and, after them, n records with the same ids in the same order.
C13_ReplayAppendsAgain ==
    (IsReplay /\ \A j \in 1..Len(MessagesOf(req.data)) :
                    Valid(MessagesOf(req.data)[j]))
    => LET messages == MessagesOf(req.data)
           n == Len(messages)
       IN  /\ resp.code = 200
           /\ Len(store) = Len(prev) + 2 * n
           /\ SubSeq(store, 1, Len(prev)) = prev
           /\ \A j \in 1..n :
                 /\ store[Len(prev) + j].id = messages[j].id
                 /\ store[Len(prev) + n + j].id = messages[j].id
                 /\ store[Len(prev) + n + j].text = store[Len(prev) + j].text

\* a payload of two valid messages was delivered twice
C13_Witness ==
    /\ IsReplay
    /\ Len(MessagesOf(req.data)) = 2
    /\ \A j \in 1..2 : Valid(MessagesOf(req.data)[j])
    /\ Len(store) = Len(prev) + 4
    /\ store[Len(store)].id = store[Len(store) - 2].id

IsGet == req.op = "get_messages"

\* the clock reading whose ISO text is timestamp
ReadingOf(timestamp) == CHOOSE t \in ClockReadings : NowIso(t) = timestamp

\* the clock reading t1 is not later than t2
NotLater(t1, t2) == t1.sec < t2.sec \/ (t1.sec = t2.sec /\ t1.usec <= t2.usec)

\* the number of places of the list q that hold x
Count(q, x) == Cardinality({i \in 1..Len(q) : q[i] = x})

\* C12: get_messages returns every stored record exactly once, in ascending
\* order of the time its timestamp gives, and leaves the store as it was.
C12_SortedPermutation ==
    IsGet
    => /\ resp.code = 200
       /\ store = prev
       /\ resp.json.count = Len(store)
       /\ Len(resp.json.messages) = Len(store)
       /\ \A i \in 1..Len(store) :
             Count(resp.json.messages, store[i]) = Count(store, store[i])
       /\ \A i, j \in 1..Len(resp.json.messages) :
             i < j => NotLater(ReadingOf(resp.json.messages[i].timestamp),
                               ReadingOf(resp.json.messages[j].timestamp))

\* the store holds three records with timestamps T2, T1, T3, T1 < T2 < T3,
\* T2 without microseconds, and get_messages returned them as T1, T2, T3
C12_Witness ==
    /\ IsGet
    /\ Len(store) = 3
    /\ store[2].timestamp = NowIso([sec |-> ClockBase, usec |-> 500000])
    /\ store[1].timestamp = NowIso([sec |-> ClockBase + 1, usec |-> 0])
    /\ store[3].timestamp = NowIso([sec |-> ClockBase + 1, usec |-> 500000])
    /\ resp.json.messages = <<store[2], store[1], store[3]>>

IsVerify == req.op = "webhook_get"

\* C14: with a verify token configured, GET /webhook responds 200 with the
\* challenge as body when hub.mode is 'subscribe' and hub.verify_token is the
\* configured token, and 403 in every other case; the store is unchanged.
C14_VerifyHandshake ==
    (IsVerify /\ verify_token # None)
    => /\ store = prev
       /\ IF req.mode = "subscribe" /\ req.token = ConfiguredToken
          THEN resp.code = 200 /\ resp.text = req.challenge
          ELSE resp.code = 403

\* C20: with no verify token configured, GET /webhook never responds 200.
C20_UnsetTokenNeverVerifies ==
    (IsVerify /\ verify_token = None) => resp.code # 200

\* one step leaves every stored record in its place, with all its fields but
\* status and timestamp_status_update as they were
AppendOnly ==
    /\ Len(store') >= Len(store)
    /\ \A i \in 1..Len(store) :
          /\ DOMAIN store'[i] \ StatusFields = DOMAIN store[i] \ StatusFields
          /\ \A k \in DOMAIN store[i] \ StatusFields : store'[i][k] = store[i][k]

\* C15: over every sequence of requests the store is append-only: it never
\* gets shorter, no record changes place, and of a stored record only
\* status and timestamp_status_update ever change.
C15_AppendOnly == [][AppendOnly]_vars

\* a status event changed a record of a store of two records in place
C15_Witness ==
    /\ IsPost
    /\ Len(prev) = 2
    /\ Len(store) = 2
    /\ store # prev
    /\ \E i \in 1..2 : "timestamp_status_update" \in DOMAIN store[i]

\* C16: no inbound record ever has a status or a timestamp_status_update.
C16_StatusOnlyOnOutbound ==
    \A i \in 1..Len(store) :
        store[i].direction = "in" => DOMAIN store[i] \cap StatusFields = {}

\* a status event with the id of a stored inbound record and of the outbound
\* record stored behind it was handled: it changed the outbound record
C16_Witness ==
    /\ IsPost
    /\ StatusesOnly(req.data)
    /\ Len(prev) = 2
    /\ prev[1].direction = "in"
    /\ prev[2].direction = "out"
    /\ prev[1].id = prev[2].id
    /\ \E sd \in StatusesIn(req.data) : Get(sd, "id") = prev[1].id
    /\ store[1] = prev[1]
    /\ store[2].status # "sent"

\* C17: when several outbound records have the id of a status event, only
\* the first of them in store order gets the status of the event (and the
\* converted time, when the event has an epoch); every other record is
\* unchanged.
C17_FirstMatchOnly ==
    \A sd \in StatusEvents :
        ( /\ IsPost
          /\ req.data = StatusPayload(sd)
          /\ Cardinality(Outbound(prev, sd.id)) >= 2 )
        => LET first == CHOOSE i \in Outbound(prev, sd.id) :
                            \A j \in Outbound(prev, sd.id) : i <= j
           IN  /\ Len(store) = Len(prev)
               /\ store[first].status = sd.status
               /\ ("timestamp" \in DOMAIN sd /\ sd.timestamp \in {Epoch, EpochDayEnd})
                     => store[first].timestamp_status_update = IsoOf(sd.timestamp)
               /\ \A i \in 1..Len(prev) : i # first => store[i] = prev[i]

\* two sent records had the id of a 'delivered' event: the first is
\* delivered, the second still sent
C17_Witness ==
    /\ IsPost
    /\ \E sd \in StatusEvents :
          /\ req.data = StatusPayload(sd)
          /\ sd.status = "delivered"
          /\ Outbound(prev, sd.id) = {1, 2}
    /\ prev[1].status = "sent"
    /\ store[1].status = "delivered"
    /\ store[2].status = "sent"

\* C18: a POST /webhook that is answered 500 leaves the store as it was.
C18_ErrorLeavesStore ==
    (IsPost /\ resp.code = 500) => store = prev

\* C19: a status event without id changes no stored record.
C19_NoIdNoChange ==
    (IsPost /\ req.data = StatusPayload(NoIdStatus)) => store = prev

====
